---- MODULE Spec2Model ----
(***************************************************************************)
(* The decoding loop of neuralmonkey's AutoregressiveDecoder               *)
(* (src/neuralmonkey/decoders/autoregressive.py).                          *)
(*                                                                         *)
(* A decoder owns its configuration (max_output_len, supress_unk), the     *)
(* batch it is fed (batch_size, train_inputs) and its parameters; every    *)
(* call of decoding_loop(train_mode, sample, temperature) is one loop      *)
(* instance that threads a LoopState (histories, constants, feedables)     *)
(* through tf.while_loop.  Tensors are functions: a batch-major tensor is  *)
(* a function on 1..batch_size, a time-major history is a sequence of      *)
(* such functions, a score vector is a function on the vocabulary ids.     *)
(* Python's 0-based time index t is position t+1 of a sequence.            *)
(* Scores are integers (all the values used are even, so that the division *)
(* by the temperature is exact, as it is for the floats of the code).      *)
(***************************************************************************)
EXTENDS Integers, Sequences, FiniteSets, TLC

\* ---------------------------------------------------------------- bounds
MaxBatch == 2
MaxLen == 2
VocabSize == 5

\* ------------------------------------------------- vocabulary constants
PAD_TOKEN_INDEX == 0
START_TOKEN_INDEX == 1
END_TOKEN_INDEX == 2
UNK_TOKEN_INDEX == 3

\* the ids of the vocabulary, len(self.vocabulary) of them
Ids == 0..(VocabSize - 1)

\* an ordinary word of the vocabulary (the first id after the reserved ones)
WordId == UNK_TOKEN_INDEX + 1

VARIABLES
    max_output_len,   \* self.max_output_len
    supress_unk,      \* self.supress_unk
    batch_size,       \* self.batch_size
    decoder,          \* the constructor's arguments and what __init__ made of them
    feed,             \* what the last feed_dict call returned
    next_states,      \* next_states[r]: the hidden states next_state can return in loop r
    args,             \* args[r]: the arguments of loop r's decoding_loop call
    pc,               \* pc[r]: "loop" inside tf.while_loop, "done" once returned
    loop_state        \* loop_state[r]: the LoopState threaded through loop r

vars == <<max_output_len, supress_unk, batch_size, decoder, feed,
          next_states, args, pc, loop_state>>

Batch == 1..batch_size

\* ------------------------------------------------------------ parameters

\* The hidden states of the model: each stands for one output_state vector.
HiddenStates == {"hEnd", "hUnk", "hPad"}

\* the ranges of next_state the model runs: a step function that returns
\* hEnd or hUnk, and one that returns hEnd or hPad
HiddenRanges == { {"hEnd", "hUnk"}, {"hEnd", "hPad"} }

Large == 400

\* matmul(state, self.decoding_w) + self.decoding_b for one hidden state:
\*   hEnd scores END far above everything else,
\*   hUnk scores UNK highest with the ordinary word WordId close behind,
\*   hPad scores PAD highest, WordId half-way, the rest far below.
decoding_w(h) ==
    [i \in Ids |->
        CASE h = "hEnd" -> IF i = END_TOKEN_INDEX THEN Large ELSE 0
          [] h = "hUnk" -> IF i = UNK_TOKEN_INDEX THEN Large + 4
                           ELSE IF i = WordId THEN Large ELSE 0
          [] OTHER      -> IF i = PAD_TOKEN_INDEX THEN Large
                           ELSE IF i = WordId THEN Large \div 2 ELSE 0]

\* self.embedding_matrix: one (distinct) vector per id
embedding_matrix == [i \in Ids |-> 2 * i + 1]

\* dropout(variable, keep_prob, train_mode) on one value: the value itself
\* with a keep probability of 1.0 or outside training; otherwise the value
\* scaled by 1 / keep_prob if it is kept and 0 if it is dropped
\* (dropout_keep_prob is in tenths)
dropout(value, keep_prob, train_mode, keep) ==
    IF keep_prob = 10 \/ ~train_mode THEN value
    ELSE IF keep THEN (value * 10) \div keep_prob
    ELSE 0

\* every value kept
AllKept == [b \in Batch |-> TRUE]

\* what dropout may keep of one batch of embeddings: with a keep probability
\* of 0 nothing, with one strictly between 0 and 1 any part of it
Keeps ==
    IF decoder.dropout_keep_prob = 10 \/ ~feed.train THEN {AllKept}
    ELSE IF decoder.dropout_keep_prob = 0 THEN {[b \in Batch |-> FALSE]}
    ELSE [Batch -> BOOLEAN]

\* mutant: the embedding of the start symbol, whatever the input symbols are
embed_input_symbols_AlwaysStart(input_symbols, kept) ==
    [b \in DOMAIN input_symbols |->
        dropout(embedding_matrix[START_TOKEN_INDEX], decoder.dropout_keep_prob,
                feed.train, kept[b])]

\* embed_input_symbols: the embedding lookup, then dropout under the
\* decoder's train_mode (the flag feed_dict feeds)
embed_input_symbols(input_symbols, kept) ==
    [b \in DOMAIN input_symbols |->
        dropout(embedding_matrix[input_symbols[b]], decoder.dropout_keep_prob,
                feed.train, kept[b])]

\* go_symbols: START for every batch element
go_symbols == [b \in Batch |-> START_TOKEN_INDEX]

\* ------------------------------------------------------------ the batch

\* a sentence too long for any max_output_len: pad_batch cuts its end symbol
LongSentence == [i \in 1..(MaxLen + 3) |-> WordId]

\* pad_batch(sentences, max_len, add_end_symbol=True) for one sentence: the
\* end symbol appended, cut to max_len, padded to max_len
PadSentence(s, max_len) ==
    LET e == Append(s, END_TOKEN_INDEX)
    IN  [t \in 1..max_len |-> IF t <= Len(e) THEN e[t] ELSE PAD_TOKEN_INDEX]

\* train_inputs: the padded batch as ids, transposed to time-major
TrainInputs(sentences, max_len) ==
    [t \in 1..max_len |->
        [b \in DOMAIN sentences |-> PadSentence(sentences[b], max_len)[t]]]

\* the batches of reference sentences the model feeds
Sentences(B) ==
    { [b \in 1..B |-> IF b = 1 THEN <<UNK_TOKEN_INDEX>> ELSE LongSentence],
      [b \in 1..B |-> IF b % 2 = 1 THEN << >> ELSE <<UNK_TOKEN_INDEX>>],
      [b \in 1..B |-> << >>] }

\* pad_batch(list(sentences), max_len, add_start_symbol=False,
\* add_end_symbol=True): the padded batch, batch-major
pad_batch(sentences, max_len) ==
    [b \in DOMAIN sentences |-> PadSentence(sentences[b], max_len)]

\* tf.transpose of a padded batch: time-major
Transposed(padded) ==
    IF DOMAIN padded = {} THEN << >>
    ELSE [t \in 1..Len(padded[1]) |-> [b \in DOMAIN padded |-> padded[b][t]]]

\* ---------------------------------------------------------- construction

\* Python's None is the empty set, a value x is {x}
None == {}

Some(x) == {x}

ValueOf(o) == CHOOSE x \in o : TRUE

\* the checks of __init__ with a length check that lets 0 through
init_checks_AllowsZero(max_len, cfg) ==
    IF max_len < 0 THEN "ValueError"
    ELSE IF cfg.embedding_size # None /\ ValueOf(cfg.embedding_size) <= 0 THEN "ValueError"
    ELSE IF cfg.dropout_keep_prob < 0 \/ cfg.dropout_keep_prob > 10 THEN "ValueError"
    ELSE "constructed"

\* the checks of __init__, in their order: what construction ends with.
\* dropout_keep_prob is in tenths (10 is the probability 1.0).
init_checks(max_len, cfg) ==
    IF max_len <= 0 THEN "ValueError"
    ELSE IF cfg.embedding_size # None /\ ValueOf(cfg.embedding_size) <= 0 THEN "ValueError"
    ELSE IF cfg.dropout_keep_prob < 0 \/ cfg.dropout_keep_prob > 10 THEN "ValueError"
    ELSE "constructed"

\* the embedding_size property: the width of the reused embeddings if there
\* is a source, the constructor's argument otherwise, None (an error) without
\* both
embedding_size(cfg) ==
    IF cfg.embeddings_source = None THEN cfg.embedding_size
    ELSE cfg.embeddings_source

\* decoding_w without its check
decoding_w_raises_Never(cfg) == FALSE

\* the check of the decoding_w property: tied embeddings need an embedding
\* as wide as the output of the decoder
decoding_w_raises(cfg) ==
    cfg.tie_embeddings /\ embedding_size(cfg) # Some(cfg.output_dimension)

\* what building the graph of decoding_loop ends with: get_initial_histories
\* reads embedding_size, then decoding_w is built
build_checks(cfg) ==
    IF embedding_size(cfg) = None THEN "ValueError"
    ELSE IF decoding_w_raises(cfg) THEN "ValueError"
    ELSE "built"

\* feed_dict raising whenever the dataset lacks the series
feed_dict_RaisesWithoutSeries(series, train, max_len) ==
    IF series = None
    THEN [status |-> "ValueError", fd |-> {}]
    ELSE [status |-> "fed",
          fd |-> { <<"train_tokens", pad_batch(ValueOf(series), max_len)>> }]

\* feed_dict(dataset, train): series is dataset.maybe_get_series(data_id),
\* None or the sentences; the dictionary is a set of (key, value) pairs
feed_dict(series, train, max_len) ==
    IF series = None /\ train
    THEN [status |-> "ValueError", fd |-> {}]
    ELSE [status |-> "fed",
          fd |-> IF series # None
                 THEN { <<"train_tokens", pad_batch(ValueOf(series), max_len)>> }
                 ELSE {}]

\* a feed_dict call: its arguments with what it returned or raised
FeedDictCall(series, train, max_len) ==
    [series |-> series, train |-> train,
     status |-> feed_dict(series, train, max_len).status,
     fd |-> feed_dict(series, train, max_len).fd]

\* the value fed for train_tokens, None if the dictionary has no such entry
FedTokens(f) == { e[2] : e \in { e \in f.fd : e[1] = "train_tokens" } }

\* ------------------------------------------------------- initial LoopState

get_initial_feedables(kept) ==
    [step |-> 0,
     finished |-> [b \in Batch |-> FALSE],
     embedded_input |-> embed_input_symbols(go_symbols, kept)]

get_initial_histories ==
    [logits |-> << >>,
     output_states |-> << >>,
     output_symbols |-> << >>,
     output_mask |-> << >>]

get_initial_constants(inputs) == [train_inputs |-> inputs]

get_initial_loop_state(inputs, kept) ==
    [feedables |-> get_initial_feedables(kept),
     histories |-> get_initial_histories,
     constants |-> get_initial_constants(inputs)]

\* ------------------------------------------------------------- the loop

\* mutant: the loop runs to max_output_len whatever the finished flags are
loop_continue_criterion_IgnoresFinished(ls) ==
    ls.feedables.step < max_output_len

\* mutant: the length test lets one more iteration through
loop_continue_criterion_OffByOne(ls) ==
    LET finished == ls.feedables.finished
        not_all_done == ~(\A b \in DOMAIN finished : finished[b])
        before_max_len == ls.feedables.step <= max_output_len
    IN  not_all_done /\ before_max_len

\* mutant: the length test is missing
loop_continue_criterion_IgnoresLength(ls) ==
    LET finished == ls.feedables.finished
    IN  ~(\A b \in DOMAIN finished : finished[b])

loop_continue_criterion(ls) ==
    LET finished == ls.feedables.finished
        not_all_done == ~(\A b \in DOMAIN finished : finished[b])
        before_max_len == ls.feedables.step < max_output_len
    IN  not_all_done /\ before_max_len

\* mutant: the flag is recomputed from the symbol alone
is_finished_Forgets(finished, symbols) ==
    [b \in DOMAIN finished |-> symbols[b] = END_TOKEN_INDEX]

\* mutant: the padding symbol ends a sequence as well
is_finished_OnPad(finished, symbols) ==
    [b \in DOMAIN finished |->
        finished[b] \/ symbols[b] = END_TOKEN_INDEX \/ symbols[b] = PAD_TOKEN_INDEX]

is_finished(finished, symbols) ==
    LET has_just_finished == [b \in DOMAIN finished |-> symbols[b] = END_TOKEN_INDEX]
    IN  [b \in DOMAIN finished |-> finished[b] \/ has_just_finished[b]]

UnkPenalty == 1000000000

\* tf.one_hot(UNK_TOKEN_INDEX, depth=len(vocabulary), on_value=-1e9)
unk_mask == [i \in Ids |-> IF i = UNK_TOKEN_INDEX THEN -UnkPenalty ELSE 0]

\* mutant: the unknown token keeps its score
state_to_logits_NoSuppression(state) ==
    [b \in DOMAIN state |-> [i \in Ids |-> decoding_w(state[b])[i]]]

state_to_logits(state) ==
    [b \in DOMAIN state |->
        [i \in Ids |-> decoding_w(state[b])[i]
                       + (IF supress_unk THEN unk_mask[i] ELSE 0)]]

\* logits /= temperature
Tempered(logits, temperature) ==
    [b \in DOMAIN logits |-> [i \in Ids |-> logits[b][i] \div temperature]]

\* tf.argmax over the ids of S: the first id of the highest score
ArgMax(v, S) ==
    CHOOSE i \in S : /\ \A j \in S : v[j] <= v[i]
                     /\ \A j \in S : v[j] = v[i] => i <= j

\* how far below the highest score an id can be and still be drawn: below
\* that its float32 probability exp(score - max) is 0
MultinomialRange == 100

\* the ids tf.multinomial can draw from one score vector
Support(v) ==
    LET top == v[ArgMax(v, Ids)]
    IN  { i \in Ids : v[i] + MultinomialRange > top }

\* tf.multinomial(logits, num_samples=1): every draw it can return, one
\* independent draw per batch element
multinomial(logits) ==
    LET support == [b \in DOMAIN logits |-> Support(logits[b])]
    IN  { d \in [DOMAIN logits -> Ids] : \A b \in DOMAIN logits : d[b] \in support[b] }

\* the draws the selector can see: those of tf.multinomial when sampling,
\* none (a placeholder) otherwise
Draws(logits, a) ==
    IF a.sample THEN multinomial(logits)
    ELSE { [b \in DOMAIN logits |-> PAD_TOKEN_INDEX] }

\* the branch of the selector that reads loop_state.constants.train_inputs:
\* the elif after the sample test
reads_train_inputs(a) == ~a.sample /\ a.train_mode

\* train_inputs[step] is a row of train_inputs, where the selector reads it
train_inputs_in_range(ls, a) ==
    reads_train_inputs(a) => ls.feedables.step + 1 <= Len(ls.constants.train_inputs)

\* mutant: train_mode is tested before sample
logits_to_symbols_TrainFirst(logits, ls, a, drawn) ==
    LET step == ls.feedables.step
        next_symbols ==
            IF a.train_mode THEN ls.constants.train_inputs[step + 1]
            ELSE IF a.sample THEN drawn
            ELSE [b \in DOMAIN logits |-> ArgMax(logits[b], Ids)]
        int_unfinished_mask ==
            [b \in DOMAIN logits |-> IF ls.feedables.finished[b] THEN 0 ELSE 1]
    IN  [b \in DOMAIN logits |-> next_symbols[b] * int_unfinished_mask[b]]

\* mutant: the teacher-forced selector takes the arg-max of the scores
logits_to_symbols_ArgMaxInTraining(logits, ls, a, drawn) ==
    LET next_symbols ==
            IF a.sample THEN drawn
            ELSE [b \in DOMAIN logits |-> ArgMax(logits[b], Ids)]
        int_unfinished_mask ==
            [b \in DOMAIN logits |-> IF ls.feedables.finished[b] THEN 0 ELSE 1]
    IN  [b \in DOMAIN logits |-> next_symbols[b] * int_unfinished_mask[b]]

\* mutant: the symbols of finished sequences are not overridden
logits_to_symbols_Unmasked(logits, ls, a, drawn) ==
    LET step == ls.feedables.step
    IN  IF a.sample THEN drawn
        ELSE IF a.train_mode THEN ls.constants.train_inputs[step + 1]
        ELSE [b \in DOMAIN logits |-> ArgMax(logits[b], Ids)]

logits_to_symbols(logits, ls, a, drawn) ==
    LET step == ls.feedables.step
        next_symbols ==
            IF a.sample THEN drawn
            ELSE IF a.train_mode THEN ls.constants.train_inputs[step + 1]
            ELSE [b \in DOMAIN logits |-> ArgMax(logits[b], Ids)]
        int_unfinished_mask ==
            [b \in DOMAIN logits |-> IF ls.feedables.finished[b] THEN 0 ELSE 1]
    IN  [b \in DOMAIN logits |-> next_symbols[b] * int_unfinished_mask[b]]

\* the scores of one step: state_to_logits, then the temperature
StepLogits(output_state, a) == Tempered(state_to_logits(output_state), a.temperature)

\* mutant: the output state of the step is not recorded
append_histories_DropsState(histories, logits, output_state, next_symbols, finished) ==
    [logits |-> Append(histories.logits, logits),
     output_states |-> histories.output_states,
     output_symbols |-> Append(histories.output_symbols, next_symbols),
     output_mask |-> Append(histories.output_mask,
                            [b \in DOMAIN finished |-> ~finished[b]])]

\* mutant: the new symbols are put in front of the recorded ones
append_histories_Prepends(histories, logits, output_state, next_symbols, finished) ==
    [logits |-> Append(histories.logits, logits),
     output_states |-> Append(histories.output_states, output_state),
     output_symbols |-> <<next_symbols>> \o histories.output_symbols,
     output_mask |-> Append(histories.output_mask,
                            [b \in DOMAIN finished |-> ~finished[b]])]

\* next_histories of body: one slice appended to each history
append_histories(histories, logits, output_state, next_symbols, finished) ==
    [logits |-> Append(histories.logits, logits),
     output_states |-> Append(histories.output_states, output_state),
     output_symbols |-> Append(histories.output_symbols, next_symbols),
     output_mask |-> Append(histories.output_mask,
                            [b \in DOMAIN finished |-> ~finished[b]])]

\* mutant: the selected symbols are recorded into the constants too
body_RecordsIntoConstants(ls, a, output_state, drawn, kept) ==
    LET feedables == ls.feedables
        logits == StepLogits(output_state, a)
        next_symbols == logits_to_symbols(logits, ls, a, drawn)
        finished == is_finished(feedables.finished, next_symbols)
    IN  [feedables |-> [step |-> feedables.step + 1,
                        finished |-> finished,
                        embedded_input |-> embed_input_symbols(next_symbols, kept)],
         histories |-> append_histories(ls.histories, logits, output_state,
                                        next_symbols, finished),
         constants |-> [train_inputs |->
                           Append(ls.constants.train_inputs, next_symbols)]]

\* body(*args): one iteration, from the output_state next_state returned and
\* the draw of tf.multinomial
body(ls, a, output_state, drawn, kept) ==
    LET feedables == ls.feedables
        histories == ls.histories
        logits == StepLogits(output_state, a)
        next_symbols == logits_to_symbols(logits, ls, a, drawn)
        finished == is_finished(feedables.finished, next_symbols)
        next_feedables ==
            [step |-> feedables.step + 1,
             finished |-> finished,
             embedded_input |-> embed_input_symbols(next_symbols, kept)]
        next_histories ==
            append_histories(histories, logits, output_state, next_symbols, finished)
    IN  [feedables |-> next_feedables,
         histories |-> next_histories,
         constants |-> ls.constants]

\* decoded without the shift back: the arg-max of the cut scores as it is
decoded_NoShift(logits) ==
    [t \in 1..Len(logits) |->
        [b \in DOMAIN logits[t] |->
            LET cut == [j \in 0..(VocabSize - 2) |-> logits[t][b][j + 1]]
            IN  ArgMax(cut, DOMAIN cut)]]

\* decoded: tf.argmax(runtime_logits[:, :, 1:], -1) + 1, the arg-max over the
\* scores with the pad position cut off, shifted back by one
decoded(logits) ==
    [t \in 1..Len(logits) |->
        [b \in DOMAIN logits[t] |->
            LET cut == [j \in 0..(VocabSize - 2) |-> logits[t][b][j + 1]]
            IN  ArgMax(cut, DOMAIN cut) + 1]]

\* ------------------------------------------------------------ the actions

\* mutant: the loops of a decoder keep one LoopState between them
Body_SharesLoopState(r) ==
    /\ pc[r] = "loop"
    /\ loop_continue_criterion(loop_state[r])
    /\ train_inputs_in_range(loop_state[r], args[r])
    /\ \E output_state \in [Batch -> next_states[r]] :
         \E drawn \in Draws(StepLogits(output_state, args[r]), args[r]) :
            \E kept \in Keeps :
               loop_state' = [o \in DOMAIN loop_state |->
                                 body(loop_state[r], args[r], output_state, drawn, kept)]
    /\ UNCHANGED <<max_output_len, supress_unk, batch_size, decoder, feed,
                   next_states, args, pc>>

\* one iteration of tf.while_loop: the criterion holds, the body runs
Body(r) ==
    /\ pc[r] = "loop"
    /\ loop_continue_criterion(loop_state[r])
    /\ train_inputs_in_range(loop_state[r], args[r])
    /\ \E output_state \in [Batch -> next_states[r]] :
         \E drawn \in Draws(StepLogits(output_state, args[r]), args[r]) :
            \E kept \in Keeps :
               loop_state' = [loop_state EXCEPT
                                 ![r] = body(loop_state[r], args[r], output_state,
                                             drawn, kept)]
    /\ UNCHANGED <<max_output_len, supress_unk, batch_size, decoder, feed,
                   next_states, args, pc>>

\* the criterion fails: tf.while_loop returns, finalize_loop does nothing,
\* decoding_loop returns the final loop state
Return(r) ==
    /\ pc[r] = "loop"
    /\ ~loop_continue_criterion(loop_state[r])
    /\ pc' = [pc EXCEPT ![r] = "done"]
    /\ UNCHANGED <<max_output_len, supress_unk, batch_size, decoder, feed,
                   next_states, args, loop_state>>

Next == \E r \in DOMAIN pc : Body(r) \/ Return(r)

\* the criterion holds and the selector reads a row train_inputs does not
\* have: the slice raises and the run of the loop ends with the error
OutOfRange(r) ==
    /\ pc[r] = "loop"
    /\ loop_continue_criterion(loop_state[r])
    /\ ~train_inputs_in_range(loop_state[r], args[r])
    /\ pc' = [pc EXCEPT ![r] = "InvalidArgumentError"]
    /\ UNCHANGED <<max_output_len, supress_unk, batch_size, decoder, feed,
                   next_states, args, loop_state>>

\* the loop over targets that may have fewer rows than max_output_len
NextTargets == \E r \in DOMAIN pc : Body(r) \/ Return(r) \/ OutOfRange(r)

\* __init__: the checks pass and the object exists, or they raise
Construct ==
    /\ decoder.status = "new"
    /\ decoder' = [decoder EXCEPT !.status = init_checks(max_output_len, decoder)]
    /\ UNCHANGED <<max_output_len, supress_unk, batch_size, feed,
                   next_states, args, pc, loop_state>>

\* decoding_loop(train_mode, sample, temperature) of a constructed decoder
\* builds the graph of loop r, or raises
Build(r) ==
    /\ decoder.status = "constructed"
    /\ pc[r] = "idle"
    /\ pc' = [pc EXCEPT ![r] = build_checks(decoder)]
    /\ UNCHANGED <<max_output_len, supress_unk, batch_size, decoder, feed,
                   next_states, args, loop_state>>

\* feed_dict of a constructed decoder, for a dataset with or without the
\* series, in training or not
FeedDict ==
    /\ decoder.status = "constructed"
    /\ feed.status = "none"
    /\ \E train \in BOOLEAN :
          \E series \in {None} \cup { Some(s) : s \in Sentences(batch_size) } :
             feed' = FeedDictCall(series, train, max_output_len)
    /\ UNCHANGED <<max_output_len, supress_unk, batch_size, decoder,
                   next_states, args, pc, loop_state>>

\* a session run of the built loop r under a feed of its mode: the loop
\* starts from the initial loop state over the fed train_tokens
Run(r) ==
    /\ pc[r] = "built"
    /\ feed.status = "fed"
    /\ feed.train = args[r].train_mode
    /\ pc' = [pc EXCEPT ![r] = "loop"]
    /\ \E kept \in Keeps :
          loop_state' = [loop_state EXCEPT ![r] =
             get_initial_loop_state(
                 IF FedTokens(feed) = None THEN << >>
                 ELSE Transposed(ValueOf(FedTokens(feed))),
                 kept)]
    /\ UNCHANGED <<max_output_len, supress_unk, batch_size, decoder, feed,
                   next_states, args>>

\* the life of a decoder: construction, graph building, feeding, running
NextLife ==
    \/ Construct
    \/ FeedDict
    \/ \E r \in DOMAIN pc : Build(r) \/ Run(r) \/ Body(r) \/ Return(r)

\* --------------------------------------------------------- specifications

\* the calls of decoding_loop: teacher-forced, greedy (two temperatures),
\* sampled, and sampled with train_mode set
TeacherForced == [train_mode |-> TRUE, sample |-> FALSE, temperature |-> 1]
Greedy == [train_mode |-> FALSE, sample |-> FALSE, temperature |-> 1]
GreedyWarm == [train_mode |-> FALSE, sample |-> FALSE, temperature |-> 2]
Sampled == [train_mode |-> FALSE, sample |-> TRUE, temperature |-> 1]
SampledTrain == [train_mode |-> TRUE, sample |-> TRUE, temperature |-> 1]
LoopArgs == {TeacherForced, Greedy, GreedyWarm, Sampled, SampledTrain}

\* the batches of every size within the bound
AllSentences == UNION { Sentences(B) : B \in 1..MaxBatch }

\* a constructed decoder with the default dropout, its own embeddings of
\* width 2 and an output of width 2
ConstructedDecoder ==
    [status |-> "constructed", embedding_size |-> Some(2), embeddings_source |-> None,
     dropout_keep_prob |-> 10, tie_embeddings |-> FALSE, output_dimension |-> 2]

\* a decoder with one of the given lengths and flags, fed one of the given
\* batches, running the loops of one of the given call sets (a call set maps
\* loop names to arguments) over one of the given step functions
InitDecoder(lens, batches, flags, hiddens, callsets) ==
    /\ max_output_len \in lens
    /\ supress_unk \in flags
    /\ args \in callsets
    /\ next_states \in hiddens
    /\ DOMAIN next_states = DOMAIN args
    /\ pc = [r \in DOMAIN args |-> "loop"]
    /\ decoder = ConstructedDecoder
    /\ \E s \in batches :
          /\ batch_size = Len(s)
          /\ feed = FeedDictCall(Some(s), \E r \in DOMAIN args : args[r].train_mode,
                                 max_output_len)
          /\ loop_state = [r \in DOMAIN args |->
                              get_initial_loop_state(TrainInputs(s, max_output_len),
                                                     AllKept)]

\* one loop, any call, any shape within the bounds
Init ==
    InitDecoder(1..MaxLen, AllSentences, BOOLEAN,
                [{"run"} -> HiddenRanges], [{"run"} -> LoopArgs])

Spec == Init /\ [][Next]_vars

\* the scenario of two reference sentences, "a b" and "a", with
\* max_output_len 4: one loop, teacher-forced or greedy, any step function
ScenarioSentences == << <<UNK_TOKEN_INDEX, WordId>>, <<UNK_TOKEN_INDEX>> >>

InitScenario ==
    InitDecoder({4}, {ScenarioSentences}, BOOLEAN,
                [{"run"} -> {HiddenStates}], [{"run"} -> {TeacherForced, Greedy}])

\* one loop in any of the modes over a batch of two sentences, its step
\* function free to score END_TOKEN highest or never
InitFair ==
    InitDecoder(1..MaxLen, Sentences(2), BOOLEAN,
                [{"run"} -> {{"hEnd", "hUnk"}}], [{"run"} -> LoopArgs])

\* tf.while_loop tests the criterion and runs the body until the criterion
\* is false, then returns: a loop that can take a step takes one
SpecFair == InitFair /\ [][Next]_vars /\ WF_vars(Next)

SpecScenario == InitScenario /\ [][Next]_vars

\* two teacher-forced loops over the same batch: a reference loop whose step
\* function always returns hPad, and a loop with any of the step functions
InitPair ==
    InitDecoder(1..MaxLen, AllSentences, BOOLEAN,
                { [r \in {"first", "second"} |-> IF r = "first" THEN {"hPad"} ELSE h] :
                    h \in HiddenRanges },
                [{"first", "second"} -> {TeacherForced}])

SpecPair == InitPair /\ [][Next]_vars

\* train_loop_result and runtime_loop_result of one decoder: the loop
\* decoding_loop(train_mode=True) and the loop decoding_loop(train_mode=False)
\* over one batch of two sentences, their iterations interleaved (the
\* unknown token not suppressed)
InitBoth ==
    InitDecoder(1..MaxLen, Sentences(2), {FALSE},
                [{"train", "runtime"} -> {{"hEnd", "hUnk"}}],
                {[r \in {"train", "runtime"} |->
                     IF r = "train" THEN TeacherForced ELSE Greedy]})

SpecBoth == InitBoth /\ [][Next]_vars

\* the targets a dataset can hold for two sentences: one to max_len rows
\* (time-major), every entry the end symbol or the ordinary word
Targets(max_len) ==
    UNION { [1..T -> [1..2 -> {END_TOKEN_INDEX, WordId}]] : T \in 1..max_len }

\* a training-mode loop, teacher-forced or sampled, of a constructed decoder
\* over any such targets, read from the dataset as they are
InitTargets ==
    /\ max_output_len \in 1..MaxLen
    /\ supress_unk = FALSE
    /\ batch_size = 2
    /\ decoder = ConstructedDecoder
    /\ args \in [{"run"} -> {TeacherForced, SampledTrain}]
    /\ next_states = [r \in DOMAIN args |-> {"hEnd", "hUnk"}]
    /\ pc = [r \in DOMAIN args |-> "loop"]
    /\ \E targets \in Targets(max_output_len) :
          /\ feed = [series |-> None, train |-> TRUE, status |-> "fed",
                     fd |-> { <<"train_tokens", Transposed(targets)>> }]
          /\ loop_state = [r \in DOMAIN args |->
                              get_initial_loop_state(targets, AllKept)]

SpecTargets == InitTargets /\ [][NextTargets]_vars

\* a decoder from its constructor call on: any max_output_len from -1 up,
\* embedding_size None, 0, 1 or 2, embeddings reused (width 2) or not, a
\* dropout_keep_prob of -0.1, 0, 0.5, 1.0 or 1.1, embeddings tied or not;
\* one loop, teacher-forced or greedy, over batches of one sentence
InitLife ==
    /\ max_output_len \in (-1)..MaxLen
    /\ supress_unk = FALSE
    /\ batch_size = 1
    /\ decoder \in [status : {"new"},
                     embedding_size : {None, Some(0), Some(1), Some(2)},
                     embeddings_source : {None, Some(2)},
                     dropout_keep_prob : {-1, 0, 5, 10, 11},
                     tie_embeddings : BOOLEAN,
                     output_dimension : {2}]
    /\ feed = [series |-> None, train |-> FALSE, status |-> "none", fd |-> {}]
    /\ args \in [{"run"} -> {TeacherForced, Greedy}]
    /\ next_states = [r \in DOMAIN args |-> {"hEnd", "hUnk"}]
    /\ pc = [r \in DOMAIN args |-> "idle"]
    /\ loop_state = [r \in DOMAIN args |-> get_initial_loop_state(<< >>, AllKept)]

SpecLife == InitLife /\ [][NextLife]_vars

\* ------------------------------------------------- what the claims read

Loops == DOMAIN pc

Feedables(r) == loop_state[r].feedables

Histories(r) == loop_state[r].histories

\* column b of a time-major history, read batch-major
Column(history, b) == [t \in 1..Len(history) |-> history[t][b]]

\* loop r has just run one iteration of the body
Iterated(r) == loop_state'[r].feedables.step = loop_state[r].feedables.step + 1

\* the slice an iteration has just appended to a history
Appended(history) == history[Len(history)]

\* the 1-based steps at which sequence b of loop r emitted END_TOKEN
EndSteps(r, b) ==
    { t \in 1..Len(Histories(r).output_symbols) :
        Histories(r).output_symbols[t][b] = END_TOKEN_INDEX }

FirstEndStep(r, b) == CHOOSE t \in EndSteps(r, b) : \A u \in EndSteps(r, b) : t <= u

\* the number of true entries of output_mask[:, b]
MaskSum(r, b) ==
    Cardinality({ t \in 1..Len(Histories(r).output_mask) : Histories(r).output_mask[t][b] })

\* ------------------------------------------------------------- the claims

\* C1: every iteration appends output_mask[t, b] = NOT finished[b] as it was
\* on entering the step, so that the step that emits END_TOKEN counts as valid
C1_MaskIsUnfinishedOnEntry ==
    [][\A r \in Loops : Iterated(r) =>
          \A b \in Batch :
              Appended(loop_state'[r].histories.output_mask)[b]
                  = ~loop_state[r].feedables.finished[b]]_vars

\* C2: in the terminal state the number of true entries of output_mask[:, b]
\* is the 1-based step of the first END_TOKEN of sequence b, or max_output_len
\* when sequence b never emitted END_TOKEN
C2_MaskSumIsFirstEndStep ==
    \A r \in Loops : pc[r] = "done" =>
        \A b \in Batch :
            MaskSum(r, b) = IF EndSteps(r, b) # {} THEN FirstEndStep(r, b)
                            ELSE max_output_len

\* C3: the teacher-forced loop over the scenario's targets [[3,4,2,0],[3,2,0,0]]
\* ends with output_symbols equal to the targets, all four steps included,
\* and output_mask equal to [[1,1,1,0],[1,1,0,0]]
C3_ScenarioSymbolsAndMask ==
    \A r \in Loops : (pc[r] = "done" /\ args[r] = TeacherForced) =>
        /\ Column(Histories(r).output_symbols, 1) = <<3, 4, 2, 0>>
        /\ Column(Histories(r).output_symbols, 2) = <<3, 2, 0, 0>>
        /\ Column(Histories(r).output_mask, 1) = <<TRUE, TRUE, TRUE, FALSE>>
        /\ Column(Histories(r).output_mask, 2) = <<TRUE, TRUE, FALSE, FALSE>>

\* sequence b of loop r was finished on entering the 1-based step t
FinishedOnEntry(r, t, b) == \E u \in EndSteps(r, b) : u < t

\* C4: in every mode, a sequence that is finished on entering a step gets the
\* pad id 0 as the symbol of that step, recorded in output_symbols and
\* embedded as the next input, whatever the logits or the target are
C4_FinishedEmitsPad ==
    [][\A r \in Loops : Iterated(r) =>
          \A b \in Batch : loop_state[r].feedables.finished[b] =>
              /\ Appended(loop_state'[r].histories.output_symbols)[b] = PAD_TOKEN_INDEX
              /\ loop_state'[r].feedables.embedded_input[b]
                     = embedding_matrix[PAD_TOKEN_INDEX]]_vars

\* a greedy or sampled loop recorded pad for a finished sequence at a step
\* whose scores could not have selected pad
C4_Witness ==
    \E r \in Loops : \E b \in Batch : \E t \in 1..Len(Histories(r).output_symbols) :
        /\ args[r].sample \/ ~args[r].train_mode
        /\ FinishedOnEntry(r, t, b)
        /\ PAD_TOKEN_INDEX \notin Support(Histories(r).logits[t][b])
        /\ Histories(r).output_symbols[t][b] = PAD_TOKEN_INDEX

\* C5: finished is monotone per sequence: no step of any loop, in any mode,
\* turns a true finished[b] back to false
C5_FinishedIsMonotone ==
    [][\A r \in Loops : \A b \in Batch :
          loop_state[r].feedables.finished[b] => loop_state'[r].feedables.finished[b]]_vars

\* a loop returned with a sequence that finished at its first step and
\* stayed finished through a later step
C5_Witness ==
    \E r \in Loops : \E b \in Batch :
        /\ pc[r] = "done"
        /\ Feedables(r).step >= 2
        /\ Histories(r).output_symbols[1][b] = END_TOKEN_INDEX
        /\ Feedables(r).finished[b]

\* the time-axis lengths of the four histories of a LoopState
HistoryLengths(ls) ==
    { Len(ls.histories.logits), Len(ls.histories.output_states),
      Len(ls.histories.output_symbols), Len(ls.histories.output_mask) }

\* C6: in every LoopState each of the four histories is as long as
\* feedables.step, and every iteration adds exactly 1 to step and to each length
C6_HistoriesGrowWithStep ==
    [][\A r \in Loops :
          /\ HistoryLengths(loop_state[r]) = {loop_state[r].feedables.step}
          /\ HistoryLengths(loop_state'[r]) = {loop_state'[r].feedables.step}
          /\ loop_state'[r] # loop_state[r] => Iterated(r)]_vars

\* a loop has run two iterations
C6_Witness ==
    \E r \in Loops :
        /\ Feedables(r).step = 2
        /\ HistoryLengths(loop_state[r]) = {2}

\* C7: for every batch size and max_output_len (within the bounds) no history
\* grows beyond max_output_len, and the state a loop returns is the first one
\* in which the criterion is false: its histories are as long as its step,
\* and no iteration runs from a state in which the criterion is false
C7_TerminalLengthBounded ==
    \A r \in Loops :
        /\ \A n \in HistoryLengths(loop_state[r]) : n <= max_output_len
        /\ pc[r] = "done" =>
              /\ ~loop_continue_criterion(loop_state[r])
              /\ HistoryLengths(loop_state[r]) = {Feedables(r).step}
        /\ ~loop_continue_criterion(loop_state[r]) => ~ENABLED Body(r)

\* a loop over a batch of two or more returned before max_output_len
C7_Witness ==
    \E r \in Loops :
        /\ pc[r] = "done"
        /\ batch_size >= 2
        /\ Feedables(r).step >= 1
        /\ Feedables(r).step < max_output_len

\* the scenario's scores, as far as loop r has recorded them: a word (neither
\* END nor pad) scores highest in the first two steps, END from the third on
EndHighestFromThirdStep(r) ==
    \A t \in 1..Len(Histories(r).logits) : \A b \in Batch :
        LET top == ArgMax(Histories(r).logits[t][b], Ids)
        IN  IF t <= 2 THEN top \notin {END_TOKEN_INDEX, PAD_TOKEN_INDEX}
            ELSE top = END_TOKEN_INDEX

\* C8 as stated: under these scores the greedy loop with max_output_len 4 ends
\* with all sequences finished and with steps 3 and 4 of output_symbols forced to 0
C8_GreedyPadsStepsThreeAndFour ==
    \A r \in Loops : (pc[r] = "done" /\ args[r] = Greedy /\ EndHighestFromThirdStep(r)) =>
        /\ \A b \in Batch : Feedables(r).finished[b]
        /\ Len(Histories(r).output_symbols) = 4
        /\ \A b \in Batch : /\ Histories(r).output_symbols[3][b] = PAD_TOKEN_INDEX
                              /\ Histories(r).output_symbols[4][b] = PAD_TOKEN_INDEX

\* C8 as amended: under these scores the greedy loop ends after its third step
\* with all sequences finished; the third symbol of every sequence is END,
\* the first two are words, and there is no fourth step
C8_GreedyStopsAtStepThree ==
    \A r \in Loops : (pc[r] = "done" /\ args[r] = Greedy /\ EndHighestFromThirdStep(r)) =>
        /\ \A b \in Batch : Feedables(r).finished[b]
        /\ Feedables(r).step = 3
        /\ Len(Histories(r).output_symbols) = 3
        /\ \A b \in Batch :
              /\ Histories(r).output_symbols[1][b] \notin {END_TOKEN_INDEX, PAD_TOKEN_INDEX}
              /\ Histories(r).output_symbols[2][b] \notin {END_TOKEN_INDEX, PAD_TOKEN_INDEX}
              /\ Histories(r).output_symbols[3][b] = END_TOKEN_INDEX

\* the greedy loop of the scenario returned under these scores
C8_Witness ==
    \E r \in Loops :
        /\ pc[r] = "done"
        /\ args[r] = Greedy
        /\ max_output_len = 4
        /\ Len(Histories(r).logits) >= 3
        /\ EndHighestFromThirdStep(r)

\* the first n slices of a history
Prefix(history, n) == [t \in 1..n |-> history[t]]

Min(m, n) == IF m <= n THEN m ELSE n

\* C9: two teacher-forced loops over the same train_inputs and max_output_len,
\* whatever their step functions and scores are, record the same symbols and
\* the same mask step by step, have the same finished flags at the same step
\* and return at the same step; and the symbol of a sequence that is unfinished
\* on entering step t is train_inputs[t, b]
C9_TeacherForcingIgnoresScores ==
    /\ \A r1 \in Loops : \A r2 \in Loops :
          ( /\ args[r1] = TeacherForced /\ args[r2] = TeacherForced
            /\ loop_state[r1].constants = loop_state[r2].constants ) =>
              LET n == Min(Feedables(r1).step, Feedables(r2).step)
              IN  /\ Prefix(Histories(r1).output_symbols, n)
                        = Prefix(Histories(r2).output_symbols, n)
                  /\ Prefix(Histories(r1).output_mask, n)
                        = Prefix(Histories(r2).output_mask, n)
                  /\ Feedables(r1).step = Feedables(r2).step =>
                        Feedables(r1).finished = Feedables(r2).finished
                  /\ (pc[r1] = "done" /\ pc[r2] = "done") =>
                        Feedables(r1).step = Feedables(r2).step
    /\ \A r \in Loops : args[r] = TeacherForced =>
          \A t \in 1..Len(Histories(r).output_symbols) : \A b \in Batch :
              ~FinishedOnEntry(r, t, b) =>
                  Histories(r).output_symbols[t][b]
                      = loop_state[r].constants.train_inputs[t][b]

\* two teacher-forced loops returned after two or more steps with different
\* scores at every step, one of them scoring END highest at its first step
\* for a sequence whose target goes on
C9_Witness ==
    /\ \A r \in {"first", "second"} : r \in Loops /\ pc[r] = "done" /\ args[r] = TeacherForced
    /\ Feedables("second").step >= 2
    /\ \A t \in 1..Len(Histories("second").logits) :
          Histories("first").logits[t] # Histories("second").logits[t]
    /\ \E b \in Batch :
          /\ ArgMax(Histories("second").logits[1][b], Ids) = END_TOKEN_INDEX
          /\ Histories("second").output_symbols[1][b] # END_TOKEN_INDEX

\* the symbols a history holds
SymbolsOf(history) == { history[t][b] : t \in 1..Len(history), b \in Batch }

\* C10 as stated: with supress_unk the unknown-token id appears in the
\* output_symbols of no loop, and not in the decoded sequence
C10_UnkNeverEmitted ==
    supress_unk =>
        \A r \in Loops :
            /\ UNK_TOKEN_INDEX \notin SymbolsOf(Histories(r).output_symbols)
            /\ UNK_TOKEN_INDEX \notin SymbolsOf(decoded(Histories(r).logits))

\* C10 as amended: with supress_unk the unknown-token id is selected neither
\* by arg-max nor by sampling: it appears in the output_symbols of no greedy
\* or sampled loop, and not in the decoded sequence of any loop's logits
C10_UnkNeverSelected ==
    supress_unk =>
        \A r \in Loops :
            /\ (args[r].sample \/ ~args[r].train_mode) =>
                  UNK_TOKEN_INDEX \notin SymbolsOf(Histories(r).output_symbols)
            /\ UNK_TOKEN_INDEX \notin SymbolsOf(decoded(Histories(r).logits))

\* with supress_unk, a sampled loop drew the ordinary word at a step whose
\* hidden state scores the unknown token highest
C10_Witness ==
    /\ supress_unk
    /\ \E r \in Loops : \E b \in Batch : \E t \in 1..Len(Histories(r).output_symbols) :
          /\ args[r].sample
          /\ Histories(r).output_states[t][b] = "hUnk"
          /\ Histories(r).output_symbols[t][b] = WordId
          /\ decoded(Histories(r).logits)[t][b] = WordId

\* C11: at every position of the logits history of an inference-mode loop,
\* decoded is an id of 1..VocabSize-1 whose logit is the highest among the
\* ids 1..VocabSize-1 (the first such id), and so never the pad id 0, also
\* where the pad logit is the highest of the whole vector
C11_DecodedIsBestNonPad ==
    \A r \in Loops :
        (~args[r].train_mode /\ ~args[r].sample) =>
            \A t \in 1..Len(Histories(r).logits) : \A b \in Batch :
                LET logits == Histories(r).logits[t][b]
                    id == decoded(Histories(r).logits)[t][b]
                IN  /\ id \in 1..(VocabSize - 1)
                    /\ id # PAD_TOKEN_INDEX
                    /\ \A j \in 1..(VocabSize - 1) :
                          /\ logits[j] <= logits[id]
                          /\ logits[j] = logits[id] => id <= j

\* an inference-mode loop has returned with a position whose pad logit is
\* the highest of the vector, decoded as the ordinary word
C11_Witness ==
    \E r \in Loops : \E b \in Batch : \E t \in 1..Len(Histories(r).logits) :
        /\ pc[r] = "done"
        /\ ~args[r].train_mode /\ ~args[r].sample
        /\ \A j \in Ids : Histories(r).logits[t][b][j]
                              <= Histories(r).logits[t][b][PAD_TOKEN_INDEX]
        /\ decoded(Histories(r).logits)[t][b] = WordId

\* the configurations C12 calls invalid: max_output_len <= 0, a supplied
\* embedding_size <= 0, or dropout_keep_prob outside [0, 1]
InvalidConfiguration ==
    \/ max_output_len <= 0
    \/ \E e \in decoder.embedding_size : e <= 0
    \/ decoder.dropout_keep_prob < 0
    \/ decoder.dropout_keep_prob > 10

\* C12: once the constructor has run, it has raised exactly if the
\* configuration is invalid (max_output_len <= 0, supplied embedding_size
\* <= 0, dropout_keep_prob < 0 or > 1); the decoder object exists exactly if
\* it is valid; and only of an existing decoder is a loop ever built or run,
\* or a dictionary fed
C12_InvalidConfigurationFails ==
    /\ decoder.status # "new" =>
          /\ decoder.status = "ValueError" <=> InvalidConfiguration
          /\ decoder.status = "constructed" <=> ~InvalidConfiguration
    /\ decoder.status # "constructed" =>
          /\ \A r \in Loops : pc[r] = "idle" /\ Feedables(r).step = 0
          /\ feed.status = "none"

\* the constructor has raised for a max_output_len of 0 with every other
\* argument valid, and no loop has left its idle state
C12_Witness ==
    /\ decoder.status = "ValueError"
    /\ max_output_len = 0
    /\ decoder.embedding_size = None
    /\ decoder.dropout_keep_prob \in 0..10
    /\ \A r \in Loops : pc[r] = "idle"

\* embeddings tied to an output of another width than the embeddings
TiedMismatch ==
    /\ decoder.tie_embeddings
    /\ embedding_size(decoder) # None
    /\ embedding_size(decoder) # Some(decoder.output_dimension)

\* C13 as stated: no decoder in the constructed state has tied embeddings
\* and an embedding size different from the width of the decoder's output
C13_TiedMismatchFailsAtConstruction ==
    decoder.status = "constructed" => ~TiedMismatch

\* C13 as amended: tied embeddings of mismatched width are not rejected by
\* the constructor but by the first decoding_loop call. Of a decoder with
\* such a configuration every loop is idle or has raised when it was
\* built, none has run an iteration, and a loop that is past idle has
\* raised.
C13_TiedMismatchFailsAtBuild ==
    TiedMismatch =>
        \A r \in Loops :
            /\ pc[r] \in {"idle", "ValueError"}
            /\ Feedables(r).step = 0
            /\ (decoder.status = "constructed" /\ ~ENABLED Build(r)) =>
                  pc[r] = "ValueError"

\* a constructed decoder with tied embeddings of width 1 and an output of
\* width 2 whose decoding_loop call has raised
C13_Witness ==
    /\ decoder.status = "constructed"
    /\ TiedMismatch
    /\ decoder.embedding_size = Some(1)
    /\ decoder.embeddings_source = None
    /\ \E r \in Loops : pc[r] = "ValueError"

\* sentence s with the end symbol appended, cut and padded to max_len
PaddedWithEnd(row, s, max_len) ==
    /\ Len(row) = max_len
    /\ \A t \in 1..max_len :
          row[t] = IF t <= Len(s) THEN s[t]
                   ELSE IF t = Len(s) + 1 THEN END_TOKEN_INDEX
                   ELSE PAD_TOKEN_INDEX

\* C14: a feed_dict call has raised exactly if train was true and the
\* dataset had no series for data_id; without the series and with train
\* false it returned a dictionary with no entry for the target tokens; with
\* the series it returned a dictionary that maps the target tokens to the
\* batch, every sentence with the end symbol appended, padded to
\* max_output_len
C14_FeedDictRaisesOnlyInTraining ==
    feed.status # "none" =>
        /\ feed.status = "ValueError" <=> (feed.train /\ feed.series = None)
        /\ (feed.series = None /\ ~feed.train) =>
              /\ feed.status = "fed"
              /\ \A e \in feed.fd : e[1] # "train_tokens"
        /\ feed.series # None =>
              /\ feed.status = "fed"
              /\ \E e \in feed.fd :
                    /\ e[1] = "train_tokens"
                    /\ \A o \in feed.fd : o[1] = "train_tokens" => o = e
                    /\ DOMAIN e[2] = DOMAIN ValueOf(feed.series)
                    /\ \A b \in DOMAIN e[2] :
                          PaddedWithEnd(e[2][b], ValueOf(feed.series)[b], max_output_len)

\* feed_dict was called by the life of a decoder without the series and not
\* in training, returned a dictionary, and the greedy loop has run under it
C14_Witness ==
    /\ decoder.status = "constructed" /\ decoder.dropout_keep_prob = 5
    /\ feed.status = "fed"
    /\ feed.series = None
    /\ ~feed.train
    /\ \E r \in Loops : pc[r] = "done" /\ Feedables(r).step >= 1

\* the LoopState loop r reaches when run alone for n iterations over the
\* fed batch, its step function giving what it gave loop r in this run
RECURSIVE RunAlone(_, _)
RunAlone(r, n) ==
    IF n = 0
    THEN get_initial_loop_state(Transposed(ValueOf(FedTokens(feed))), AllKept)
    ELSE CHOOSE ls \in { body(prev, args[r], Histories(r).output_states[n],
                               Histories(r).output_symbols[n], AllKept) :
                          prev \in {RunAlone(r, n - 1)} } : TRUE

C16_BodyOnlyWhileUnfinished ==
    [][\A r \in Loops :
          /\ loop_state'[r] # loop_state[r] =>
                /\ \E b \in Batch : ~Feedables(r).finished[b]
                /\ Feedables(r).step < max_output_len
          /\ pc'[r] = "done" =>
                \/ \A b \in Batch : Feedables(r)'.finished[b]
                \/ Feedables(r)'.step = max_output_len]_vars

\* a greedy loop over two or more sentences has returned before
\* max_output_len because all its sequences were finished
C16_Witness ==
    \E r \in Loops :
        /\ pc[r] = "done"
        /\ ~args[r].train_mode /\ ~args[r].sample
        /\ batch_size >= 2
        /\ \A b \in Batch : Feedables(r).finished[b]
        /\ Feedables(r).step \in 1..(max_output_len - 1)

\* C17: in every mode, whatever the step function gives and the selector
\* picks, the loop returns, and its step never passes max_output_len: it
\* has run at most max_output_len iterations, also when no sequence emits
\* END_TOKEN
C17_LoopTerminates ==
    /\ <>(\A r \in Loops : pc[r] = "done")
    /\ [](\A r \in Loops : Feedables(r).step <= max_output_len)

\* a loop has returned after max_output_len iterations in none of which a
\* sequence emitted END_TOKEN
C17_Witness ==
    \E r \in Loops :
        /\ pc[r] = "done"
        /\ Feedables(r).step = max_output_len
        /\ \A b \in Batch : EndSteps(r, b) = {} /\ ~Feedables(r).finished[b]

\* C18: every step leaves the slices a history already holds as they are:
\* each of logits, output_states, output_symbols and output_mask after the
\* step is at least as long as before and starts with what it held before
C18_HistoriesAppendOnly ==
    [][\A r \in Loops :
          /\ Len(Histories(r)'.logits) >= Len(Histories(r).logits)
          /\ Prefix(Histories(r)'.logits, Len(Histories(r).logits))
                = Histories(r).logits
          /\ Len(Histories(r)'.output_states) >= Len(Histories(r).output_states)
          /\ Prefix(Histories(r)'.output_states, Len(Histories(r).output_states))
                = Histories(r).output_states
          /\ Len(Histories(r)'.output_symbols) >= Len(Histories(r).output_symbols)
          /\ Prefix(Histories(r)'.output_symbols, Len(Histories(r).output_symbols))
                = Histories(r).output_symbols
          /\ Len(Histories(r)'.output_mask) >= Len(Histories(r).output_mask)
          /\ Prefix(Histories(r)'.output_mask, Len(Histories(r).output_mask))
                = Histories(r).output_mask]_vars

\* a loop has run two iterations or more and its first two slices differ in
\* every history
C18_Witness ==
    \E r \in Loops :
        /\ Feedables(r).step >= 2
        /\ HistoryLengths(loop_state[r]) = {Feedables(r).step}
        /\ Histories(r).logits[1] # Histories(r).logits[2]
        /\ Histories(r).output_states[1] # Histories(r).output_states[2]
        /\ Histories(r).output_symbols[1] # Histories(r).output_symbols[2]
        /\ Histories(r).output_mask[1] # Histories(r).output_mask[2]

\* C19: the constants of every loop are, in every reachable state, the
\* constants it started with, train_inputs being the fed target tokens
\* time-major: no iteration changes them and a returned loop still has them
C19_ConstantsUnchanged ==
    \A r \in Loops :
        /\ loop_state[r].constants =
              get_initial_constants(Transposed(ValueOf(FedTokens(feed))))
        /\ loop_state[r].constants.train_inputs =
              [t \in 1..max_output_len |->
                  [b \in Batch |-> ValueOf(FedTokens(feed))[b][t]]]

\* a teacher-forced loop has returned after two iterations or more, having
\* emitted the rows of train_inputs for its first sequence
C19_Witness ==
    \E r \in Loops :
        /\ pc[r] = "done"
        /\ args[r].train_mode /\ ~args[r].sample
        /\ Feedables(r).step >= 2
        /\ \A t \in 1..2 :
              Histories(r).output_symbols[t][1] =
                  loop_state[r].constants.train_inputs[t][1]
        /\ Histories(r).output_symbols[1][1] # PAD_TOKEN_INDEX

\* a loop holds a sequence that emitted END_TOKEN in the first iteration and
\* has been finished since, and a sequence that has run two iterations and
\* is not finished
C20_Witness ==
    \E r \in Loops : \E b, c \in Batch :
        /\ Feedables(r).step >= 2
        /\ EndSteps(r, b) = {1} /\ Feedables(r).finished[b]
        /\ EndSteps(r, c) = {} /\ ~Feedables(r).finished[c]

\* C20: in every reachable state a sequence is finished exactly if
\* END_TOKEN is among the symbols recorded for it; before the first
\* iteration no sequence is finished; and a finished sequence has been
\* finished since the iteration that recorded its first END_TOKEN, and was
\* not before (output_mask holds the negated flag as it was after each
\* iteration)
C20_FinishedIffEndEmitted ==
    \A r \in Loops : \A b \in Batch :
        /\ Feedables(r).finished[b] <=> EndSteps(r, b) # {}
        /\ Feedables(r).step = 0 => ~Feedables(r).finished[b]
        /\ Feedables(r).finished[b] =>
              \A t \in 1..Feedables(r).step :
                  Histories(r).output_mask[t][b] <=> t < FirstEndStep(r, b)

\* what embed_input_symbols can give for one symbol: its embedding, or under
\* dropout in training the embedding dropped or scaled
EmbeddingsOf(symbol) ==
    { dropout(embedding_matrix[symbol], decoder.dropout_keep_prob, feed.train, keep) :
        keep \in { kept[b] : kept \in Keeps, b \in Batch } }

\* the symbols whose embedding is the input of the next step of loop r: the
\* start symbols before the first step, the symbols the last step recorded
\* after it
InputSymbols(r) ==
    IF Feedables(r).step = 0 THEN go_symbols
    ELSE Histories(r).output_symbols[Feedables(r).step]

\* C21: in every state of a running or returned loop, embedded_input is for
\* every batch element what the embedding lookup gives for the start symbol
\* (before the first step) or for the symbol the last step recorded in
\* output_symbols (after it): exactly its embedding outside training and
\* with a keep probability of 1.0, its embedding after dropout otherwise.
\* The recorded symbol of a sequence not finished before is the ground
\* truth in a teacher-forced loop and the best-scoring id in a greedy one,
\* and the pad symbol for a sequence finished before.
C21_InputIsEmbeddingOfLastSymbol ==
    \A r \in Loops :
        pc[r] \in {"loop", "done"} =>
            /\ Len(Histories(r).output_symbols) = Feedables(r).step
            /\ \A b \in Batch :
                  /\ Feedables(r).embedded_input[b] \in EmbeddingsOf(InputSymbols(r)[b])
                  /\ (decoder.dropout_keep_prob = 10 \/ ~feed.train) =>
                        Feedables(r).embedded_input[b]
                            = embedding_matrix[InputSymbols(r)[b]]
            /\ \A t \in 1..Feedables(r).step : \A b \in Batch :
                  ~args[r].sample =>
                  Histories(r).output_symbols[t][b] =
                      IF FinishedOnEntry(r, t, b) THEN PAD_TOKEN_INDEX
                      ELSE IF args[r].train_mode
                           THEN loop_state[r].constants.train_inputs[t][b]
                      ELSE ArgMax(Histories(r).logits[t][b], Ids)

\* a teacher-forced loop of a decoder with a keep probability of 0.5 has,
\* in training, recorded the unknown token and feeds the next step its
\* embedding, kept by dropout and scaled
C21_Witness ==
    \E r \in Loops :
        /\ pc[r] \in {"loop", "done"}
        /\ args[r].train_mode /\ feed.train
        /\ decoder.dropout_keep_prob = 5
        /\ Feedables(r).step >= 1
        /\ InputSymbols(r)[1] = UNK_TOKEN_INDEX
        /\ Feedables(r).embedded_input[1] = 2 * embedding_matrix[UNK_TOKEN_INDEX]

\* C22: in a loop called with sample=True, with train_mode=True as well as
\* without, the symbol of every sequence not finished before is one that
\* tf.multinomial can draw from the logits of the step, whatever
\* train_inputs holds at that step; the selector reads train_inputs only
\* with sample=False and train_mode=True, so that a sampled loop runs past
\* the last row of train_inputs and never ends with the error of a row out
\* of range
C22_SamplingTakesPrecedence ==
    \A r \in Loops :
        args[r].sample =>
            /\ pc[r] # "InvalidArgumentError"
            /\ \A t \in 1..Len(Histories(r).output_symbols) : \A b \in Batch :
                  IF FinishedOnEntry(r, t, b)
                  THEN Histories(r).output_symbols[t][b] = PAD_TOKEN_INDEX
                  ELSE Histories(r).output_symbols[t][b]
                          \in Support(Histories(r).logits[t][b])

\* a loop called with sample=True and train_mode=True has returned after
\* more steps than train_inputs has rows, and its first symbols differ from
\* the first row of train_inputs
C22_Witness ==
    \E r \in Loops :
        /\ args[r].sample /\ args[r].train_mode
        /\ pc[r] = "done"
        /\ Feedables(r).step > Len(loop_state[r].constants.train_inputs)
        /\ \A b \in Batch :
              Histories(r).output_symbols[1][b]
                  # loop_state[r].constants.train_inputs[1][b]

\* C23: in a returned greedy loop (train_mode=False, sample=False), at every
\* position whose sequence was not finished on entering the step, decoded
\* is the symbol recorded in output_symbols
C23_DecodedIsEmittedSymbol ==
    \A r \in Loops :
        (pc[r] = "done" /\ ~args[r].train_mode /\ ~args[r].sample) =>
            \A t \in 1..Len(Histories(r).output_symbols) : \A b \in Batch :
                ~FinishedOnEntry(r, t, b) =>
                    decoded(Histories(r).logits)[t][b]
                        = Histories(r).output_symbols[t][b]

\* C24: the output_mask of a returned inference-mode loop has a true entry,
\* so that the denominator of runtime_loss is at least 1
C24_MaskHasTrueEntry ==
    \A r \in Loops :
        (pc[r] = "done" /\ ~args[r].train_mode) =>
            \E b \in Batch : MaskSum(r, b) >= 1

\* the number of rows of the targets of loop r
TargetSteps(r) == Len(loop_state[r].constants.train_inputs)

\* the targets of loop r have max_output_len rows, or END_TOKEN in every
\* batch column
TargetsCoverLoop(r) ==
    \/ TargetSteps(r) = max_output_len
    \/ \A b \in Batch : \E t \in 1..TargetSteps(r) :
          loop_state[r].constants.train_inputs[t][b] = END_TOKEN_INDEX

\* C25: in a teacher-forced loop whose targets have max_output_len rows or
\* END_TOKEN in every column, whenever another iteration is due (a sequence
\* is unfinished and step < max_output_len) the step is below the number of
\* rows, and the loop never ends with a row out of range. With a column
\* without END_TOKEN and fewer rows than max_output_len, the loop does not
\* return: it runs all the rows, after which an iteration is still due and
\* reads the row after the last, out of range.
C25_TrainInputsIndexInRange ==
    \A r \in Loops :
        reads_train_inputs(args[r]) =>
            LET due == /\ \E b \in Batch : ~Feedables(r).finished[b]
                       /\ Feedables(r).step < max_output_len
            IN  /\ Feedables(r).step <= TargetSteps(r)
                /\ TargetsCoverLoop(r) =>
                      /\ pc[r] # "InvalidArgumentError"
                      /\ due => Feedables(r).step < TargetSteps(r)
                /\ ~TargetsCoverLoop(r) =>
                      /\ pc[r] # "done"
                      /\ due
                /\ pc[r] = "InvalidArgumentError" =>
                      Feedables(r).step = TargetSteps(r)

\* a teacher-forced loop over targets of fewer rows than max_output_len,
\* END_TOKEN in the first column and none in the second, has ended with a
\* row out of range after running all the rows
C25_Witness ==
    \E r \in Loops :
        /\ reads_train_inputs(args[r])
        /\ pc[r] = "InvalidArgumentError"
        /\ TargetSteps(r) < max_output_len
        /\ Feedables(r).step = TargetSteps(r)
        /\ Feedables(r).finished[1] /\ ~Feedables(r).finished[2]

\* a teacher-forced loop over targets of fewer rows than max_output_len with
\* END_TOKEN in every column has returned
C25_WitnessInRange ==
    \E r \in Loops :
        /\ reads_train_inputs(args[r])
        /\ pc[r] = "done"
        /\ TargetSteps(r) < max_output_len
        /\ \A b \in Batch : Feedables(r).finished[b]

====
